---- MODULE Spec2Model ----
(***************************************************************************)
(* The QCC / UCCSD workflow of 2022_MLandQC/QC_examples/S3_Unitary_Ansatz. *)
(*                                                                         *)
(* The notebook's cells are the steps of a straight-line program:          *)
(*   UCCSD cell   make_uccsd_ansatz, E.extract_variables, tq.minimize      *)
(*   ranking cell generate_QCC_gradient_groupings + get_QCC_entanglers     *)
(*   ansatz cell  construct_QMF_ansatz, construct_QCC_ansatz, U_MF + U_ENT,*)
(*                init_qcc_params, tq.minimize                             *)
(*   restart cell minimize_E_random_guesses                                *)
(*                                                                         *)
(* The helper functions live in the notebook's `utility` module, which is  *)
(* imported by the first cell but is not part of the source tree.          *)
(* They are modelled from the written specification, except where the      *)
(* outputs recorded in the notebook show what the function returned; the   *)
(* recorded outputs are then followed and the place is cited.              *)
(*                                                                         *)
(* Numbers.  Gradient magnitudes and angles are fixed-point integers in    *)
(* units of 1e-6: 0.0758 is 75800, the cutoff 1e-6 is 1.                   *)
(***************************************************************************)
EXTENDS Integers, Sequences, FiniteSets, TLC

VARIABLES
    pc,                          \* the cell (step) to run next
    H,                           \* the Hamiltonian as the ranking sees it
    n_electrons,                 \* electrons of the molecule
    n_ents,                      \* requested number of entanglers
    n,                           \* trials of the random-restart cell
    E_uccsd0,                    \* first energy of the UCCSD optimizer trace
    ranked_entangler_groupings,  \* output of generate_QCC_gradient_groupings
    entanglers,                  \* output of get_QCC_entanglers
    U,                           \* circuit of the current objective E
    initial_values,              \* assignment handed to tq.minimize
    E_first,                     \* first energy of the current optimizer trace
    result,                      \* result.energy / restart result
    Es                           \* final energies of the restart trials so far

vars == <<pc, H, n_electrons, n_ents, n, E_uccsd0, ranked_entangler_groupings,
          entanglers, U, initial_values, E_first, result, Es>>

----------------------------------------------------------------------------
(* Bounds of the model *)

\* longest candidate list the ranking is run on
MaxCand == 3
\* largest requested number of entanglers
MaxK == 2
\* largest number of random-restart trials
MaxTrials == 2
\* largest number of UCCSD amplitudes
MaxAmp == 1

----------------------------------------------------------------------------
(* Program constants *)

\* number of spin-orbitals (qubits), 2*h2.n_orbitals: 4 for H2 in STO-3G
NQ == 4

\* threshold = 1e-6, the cutoff of the QCC ranking gradients
threshold == 1
\* np.pi, as printed in the optimizer trace (3.141592653589793)
PI == 3141593
\* the recorded magnitudes carry four decimals: multiples of 1e-4
RoundUnit == 100

None == "None"

----------------------------------------------------------------------------
(* Small helpers *)

Range(s) == {s[i] : i \in DOMAIN s}

Min2(a, b) == IF a <= b THEN a ELSE b

RECURSIVE SeqMin(_)
SeqMin(s) == IF Len(s) = 1 THEN s[1] ELSE Min2(s[1], SeqMin(Tail(s)))

----------------------------------------------------------------------------
(* Data of the ranking cell *)

\* A Pauli string as openfermion prints it: X0 Y1 X2 X3 is
\* <<<<"X",0>>, <<"Y",1>>, <<"X",2>>, <<"X",3>>>>.  This is the entangler
\* the H2 run selects.
P_X0Y1X2X3 == << <<"X", 0>>, <<"Y", 1>>, <<"X", 2>>, <<"X", 3>> >>

\* The groupings a Hamiltonian on four qubits can give rise to.  The
\* notebook never prints the members of a grouping; a grouping is named
\* here by the qubits its entanglers act on, in ascending order: all four
\* qubits (the H2 grouping), or an occupied and an empty spin-orbital.
Generators == { <<0, 1, 2, 3>>, <<0, 2>>, <<1, 3>> }

\* Gradient magnitudes at the reference, units of 1e-6: zero, 4.0e-5 (above
\* the cutoff, below half of 1e-4), the two H2O values 0.037106 / 0.075844.
Magnitudes == {0, 40, 37106, 75844}

\* a candidate of the ranking: a grouping and the gradient its entanglers
\* share at the reference
Candidate == [ents : Generators, grad : Magnitudes]

\* What the ranking makes of H.to_openfermion() before it discards and
\* sorts: the candidate groupings in term-enumeration order, each once.
\* How the terms are turned into groupings is not modelled.
Hamiltonians ==
    { h \in UNION { [1..len -> Candidate] : len \in 0..MaxCand } :
        \A i, j \in DOMAIN h : i # j => h[i].ents # h[j].ents }

----------------------------------------------------------------------------
(* generate_QCC_gradient_groupings *)

\* round(x, 4) on a magnitude: to the nearest multiple of 1e-4, ties to even
Round4(m) ==
    LET q == m \div RoundUnit
        r == m % RoundUnit
    IN  IF 2 * r < RoundUnit THEN q * RoundUnit
        ELSE IF 2 * r > RoundUnit THEN (q + 1) * RoundUnit
        ELSE IF q % 2 = 0 THEN q * RoundUnit ELSE (q + 1) * RoundUnit

\* mutant of ApplyCutoff: the comparison is inverted, the candidates at or
\* below the cutoff are the ones kept
RECURSIVE ApplyCutoff_Inverted(_, _)
ApplyCutoff_Inverted(h, cutoff) ==
    IF h = <<>> THEN <<>>
    ELSE IF Head(h).grad <= cutoff
         THEN <<Head(h)>> \o ApplyCutoff_Inverted(Tail(h), cutoff)
         ELSE ApplyCutoff_Inverted(Tail(h), cutoff)

\* discard the candidates whose gradient magnitude falls below the cutoff
RECURSIVE ApplyCutoff(_, _)
ApplyCutoff(h, cutoff) ==
    IF h = <<>> THEN <<>>
    ELSE IF Head(h).grad >= cutoff
         THEN <<Head(h)>> \o ApplyCutoff(Tail(h), cutoff)
         ELSE ApplyCutoff(Tail(h), cutoff)

\* insert c behind every element that is not smaller (a stable insertion)
RECURSIVE InsertDesc(_, _)
InsertDesc(c, s) ==
    IF s = <<>> THEN <<c>>
    ELSE IF Head(s).grad >= c.grad
         THEN <<Head(s)>> \o InsertDesc(c, Tail(s))
         ELSE <<c>> \o s

\* mutant of SortDesc: the groups are left in input order
SortDesc_Unsorted(h) == h

\* sort descending by magnitude; equal magnitudes keep their input order
RECURSIVE SortDesc(_)
SortDesc(h) ==
    IF h = <<>> THEN <<>>
    ELSE InsertDesc(h[Len(h)], SortDesc(SubSeq(h, 1, Len(h) - 1)))

\* one output pair (group of entanglers, magnitude); the magnitude is the
\* four-decimal value the notebook prints
GroupPair(c) == <<c.ents, Round4(c.grad)>>

\* mutant of generate_QCC_gradient_groupings: neighbouring candidates of
\* equal gradient are merged into one group
RECURSIVE MergeEqual(_)
MergeEqual(s) ==
    IF Len(s) <= 1 THEN s
    ELSE LET rest == MergeEqual(Tail(s))
         IN  IF Head(s).grad = Head(rest).grad
             THEN <<[ents |-> Head(s).ents \o Head(rest).ents,
                     grad |-> Head(s).grad]>> \o Tail(rest)
             ELSE <<Head(s)>> \o rest

generate_QCC_gradient_groupings_Merged(h, n_qubits, hf_reference, cutoff) ==
    LET kept == MergeEqual(SortDesc(ApplyCutoff(h, cutoff)))
    IN  [i \in 1..Len(kept) |-> GroupPair(kept[i])]

generate_QCC_gradient_groupings(h, n_qubits, hf_reference, cutoff) ==
    LET kept == SortDesc(ApplyCutoff(h, cutoff))
    IN  [i \in 1..Len(kept) |-> GroupPair(kept[i])]

----------------------------------------------------------------------------
(* get_QCC_entanglers *)

\* mutant of Representative: Y on the first two qubits of the grouping
Representative_TwoY(pair) ==
    [i \in DOMAIN pair[1] |-> <<IF i <= 2 THEN "Y" ELSE "X", pair[1][i]>>]

\* the entangler taken from a grouping: in each of the seven recorded
\* selections X on every qubit of the string but the second, which has Y
Representative(pair) ==
    [i \in DOMAIN pair[1] |-> <<IF i = 2 THEN "Y" ELSE "X", pair[1][i]>>]

\* mutant of get_QCC_entanglers: the picks are returned lowest rank first
get_QCC_entanglers_LowestFirst(groupings, M, n_qubits) ==
    LET m == Min2(M, Len(groupings))
    IN  [i \in 1..m |-> Representative(groupings[m + 1 - i])]

\* get_QCC_entanglers(ranked_entangler_groupings, n_ents, n_qubits): one
\* entangler from each of the M highest groupings, in rank order; the
\* groupings are exhausted when M exceeds their number
get_QCC_entanglers(groupings, M, n_qubits) ==
    [i \in 1..Min2(M, Len(groupings)) |-> Representative(groupings[i])]

----------------------------------------------------------------------------
(* Reference occupation and circuits *)

\* hf_occ(n_spin_orbitals, n_electrons): the first n_electrons spin-orbitals
\* are occupied (qubit i is element i + 1)
hf_occ(n_qubits, ne) == [i \in 1..n_qubits |-> IF i <= ne THEN 1 ELSE 0]

\* variable names: beta_i, gamma_i, tau_j; UCCSD amplitudes are indexed
Var(name, i) == <<name, i>>
\* the angle slot of a gate without a variable
NoVar == <<"none", 0>>

\* the Euler rotation of qubit q: Rx(beta_q) followed by Rz(gamma_q)
euler_rot(q) ==
    << [gate |-> "Rx", target |-> q, angle |-> Var("beta", q)],
       [gate |-> "Rz", target |-> q, angle |-> Var("gamma", q)] >>

\* construct_QMF_ansatz(n_qubits): one rotation pair per qubit, qubit 0 first
RECURSIVE construct_QMF_ansatz(_)
construct_QMF_ansatz(n_qubits) ==
    IF n_qubits = 0 THEN <<>>
    ELSE construct_QMF_ansatz(n_qubits - 1) \o euler_rot(n_qubits - 1)

\* construct_QCC_ansatz(entanglers): exp(-i tau_j/2 P_j), in list order
construct_QCC_ansatz(ents) ==
    [j \in 1..Len(ents) |->
        [gate |-> "ExpPauli", target |-> ents[j], angle |-> Var("tau", j - 1)]]

\* mutant of QCC_circuit: the entangler layers come first
QCC_circuit_Reversed(U_MF, U_ENT) == U_ENT \o U_MF

\* U_QCC = U_MF + U_ENT
QCC_circuit(U_MF, U_ENT) == U_MF \o U_ENT

\* h.make_uccsd_ansatz: the reference preparation (X on every occupied
\* qubit) followed by one Trotterized excitation per amplitude
make_uccsd_ansatz(hf_reference, n_amp) ==
    LET occ == { i \in DOMAIN hf_reference : hf_reference[i] = 1 }
        RECURSIVE Prep(_)
        Prep(i) == IF i = 0 THEN <<>>
                   ELSE Prep(i - 1) \o
                        (IF i \in occ
                         THEN << [gate |-> "X", target |-> i - 1, angle |-> NoVar] >>
                         ELSE <<>>)
    IN  Prep(Len(hf_reference)) \o
        [j \in 1..n_amp |->
            [gate |-> "Excitation", target |-> j, angle |-> Var("amp", j)]]

\* E.extract_variables(): the circuit's variables, each once, in order of
\* first appearance
RECURSIVE extract_variables(_)
extract_variables(circ) ==
    IF circ = <<>> THEN <<>>
    ELSE LET front == extract_variables(SubSeq(circ, 1, Len(circ) - 1))
             a     == circ[Len(circ)].angle
         IN  IF a = NoVar \/ a \in Range(front) THEN front
             ELSE Append(front, a)

----------------------------------------------------------------------------
(* Initial values *)

\* the value init_qcc_params gives one variable
InitValue(hf_reference, v) ==
    IF v[1] = "beta"
    THEN (IF hf_reference[v[2] + 1] = 1 THEN PI ELSE 0)
    ELSE 0

\* init_qcc_params(hf_occ, variables)
init_qcc_params(hf_reference, variables) ==
    [v \in Range(variables) |-> InitValue(hf_reference, v)]

\* mutant of zero_initial_values: every amplitude starts at pi
zero_initial_values_Pi(variables) == [k \in Range(variables) |-> PI]

\* initial_values={k:0.0 for k in E.extract_variables()}
zero_initial_values(variables) == [k \in Range(variables) |-> 0]

----------------------------------------------------------------------------
(* What a circuit prepares from |0...0> and its energy *)

\* a register: a computational-basis bit pattern, or a state outside the basis
Basis(bits) == [basis |-> TRUE, bits |-> bits]
Mixed == [basis |-> FALSE, bits |-> <<>>]

Flip(bits, q) == [bits EXCEPT ![q + 1] = 1 - bits[q + 1]]

\* one gate on a register: X and Rx(pi) flip the target, Rx(0), Rz and a
\* zero-angle exponential leave the bit pattern alone, anything else leaves
\* the computational basis
ApplyGate(state, g, vals) ==
    IF ~state.basis THEN Mixed
    ELSE CASE g.gate = "X"  -> Basis(Flip(state.bits, g.target))
           [] g.gate = "Rz" -> state
           [] g.gate = "Rx" -> IF vals[g.angle] = 0 THEN state
                               ELSE IF vals[g.angle] = PI
                                    THEN Basis(Flip(state.bits, g.target))
                                    ELSE Mixed
           [] OTHER         -> IF vals[g.angle] = 0 THEN state ELSE Mixed

RECURSIVE Prepare(_, _, _)
Prepare(circ, vals, n_qubits) ==
    IF circ = <<>> THEN Basis([i \in 1..n_qubits |-> 0])
    ELSE ApplyGate(Prepare(SubSeq(circ, 1, Len(circ) - 1), vals, n_qubits),
                   circ[Len(circ)], vals)

\* <b|H|b> of a bit pattern: a function of the pattern alone; distinct
\* patterns are kept distinct (the pattern read as a binary number)
RECURSIVE BasisEnergy(_)
BasisEnergy(bits) ==
    IF bits = <<>> THEN 0
    ELSE bits[1] + 2 * BasisEnergy(Tail(bits))

\* energies an optimizer run can end at, below every basis-state energy
FinalEnergies == {-3, -2}

\* the energy of the first optimizer evaluation; a state outside the basis
\* has an energy no basis state has
FirstEnergy(circ, vals, n_qubits) ==
    LET st == Prepare(circ, vals, n_qubits)
    IN  IF st.basis THEN BasisEnergy(st.bits) ELSE -1

----------------------------------------------------------------------------
(* The notebook, cell by cell *)

hf_reference == hf_occ(NQ, n_electrons)

\* closed-shell molecules with an empty spin-orbital left to excite into: an
\* even number of electrons below the number of spin-orbitals (H2 has 2)
ElectronCounts == { ne \in 0..(NQ - 1) : ne % 2 = 0 }

inputs == <<H, n_electrons, n_ents, n>>

Init ==
    /\ pc = "uccsd"
    /\ H \in Hamiltonians
    /\ n_electrons \in ElectronCounts
    /\ n_ents \in 0..MaxK
    /\ n \in 1..MaxTrials
    /\ E_uccsd0 = None
    /\ ranked_entangler_groupings = <<>>
    /\ entanglers = <<>>
    /\ U = <<>>
    /\ initial_values = <<>>
    /\ E_first = None
    /\ result = None
    /\ Es = <<>>

\* U_UCCSD = make_uccsd_ansatz(...); E = ExpectationValue(H, U_UCCSD);
\* result = tq.minimize(E, initial_values = {k: 0.0 for k in variables})
UCCSDCell ==
    /\ pc = "uccsd"
    /\ \E n_amp \in 0..MaxAmp, e \in FinalEnergies :
         LET circ == make_uccsd_ansatz(hf_reference, n_amp)
             vals == zero_initial_values(extract_variables(circ))
         IN  /\ U' = circ
             /\ initial_values' = vals
             /\ E_first' = FirstEnergy(circ, vals, NQ)
             /\ E_uccsd0' = FirstEnergy(circ, vals, NQ)
             /\ result' = e
    /\ pc' = "rank"
    /\ UNCHANGED <<inputs, ranked_entangler_groupings, entanglers, Es>>

\* mutant of RankCell: the ranking is called with a zero cutoff
RankCell_NoCutoff ==
    /\ pc = "rank"
    /\ ranked_entangler_groupings' =
           generate_QCC_gradient_groupings(H, NQ, hf_reference, 0)
    /\ pc' = "select"
    /\ UNCHANGED <<inputs, E_uccsd0, entanglers, U, initial_values, E_first,
                   result, Es>>

\* ranked_entangler_groupings = generate_QCC_gradient_groupings(
\*     H.to_openfermion(), 2*n_orbitals, hf_reference, cutoff=threshold)
RankCell ==
    /\ pc = "rank"
    /\ ranked_entangler_groupings' =
           generate_QCC_gradient_groupings(H, NQ, hf_reference, threshold)
    /\ pc' = "select"
    /\ UNCHANGED <<inputs, E_uccsd0, entanglers, U, initial_values, E_first,
                   result, Es>>

\* entanglers = get_QCC_entanglers(ranked_entangler_groupings, n_ents, n_qubits)
SelectCell ==
    /\ pc = "select"
    /\ entanglers' = get_QCC_entanglers(ranked_entangler_groupings, n_ents, NQ)
    /\ pc' = "ansatz"
    /\ UNCHANGED <<inputs, E_uccsd0, ranked_entangler_groupings, U,
                   initial_values, E_first, result, Es>>

\* mutant of AnsatzCell: every variable starts at 0.0, as in the UCCSD cell
AnsatzCell_ZeroInit ==
    /\ pc = "ansatz"
    /\ LET circ == QCC_circuit(construct_QMF_ansatz(NQ),
                               construct_QCC_ansatz(entanglers))
           vals == zero_initial_values(extract_variables(circ))
       IN  /\ U' = circ
           /\ initial_values' = vals
           /\ E_first' = FirstEnergy(circ, vals, NQ)
           /\ result' \in FinalEnergies \cup {FirstEnergy(circ, vals, NQ)}
    /\ pc' = "restart"
    /\ UNCHANGED <<inputs, E_uccsd0, ranked_entangler_groupings, entanglers, Es>>

\* mutant of AnsatzCell: the entangler amplitudes start at a non-zero guess
AnsatzCell_NonzeroTau ==
    /\ pc = "ansatz"
    /\ LET circ == QCC_circuit(construct_QMF_ansatz(NQ),
                               construct_QCC_ansatz(entanglers))
           init == init_qcc_params(hf_reference, extract_variables(circ))
           vals == [v \in DOMAIN init |->
                      IF v[1] = "tau" THEN 1000000 ELSE init[v]]
       IN  /\ U' = circ
           /\ initial_values' = vals
           /\ E_first' = FirstEnergy(circ, vals, NQ)
           /\ result' \in FinalEnergies \cup {FirstEnergy(circ, vals, NQ)}
    /\ pc' = "restart"
    /\ UNCHANGED <<inputs, E_uccsd0, ranked_entangler_groupings, entanglers, Es>>

\* U_MF, U_ENT, U_QCC = U_MF + U_ENT, E, initial_vals = init_qcc_params(...),
\* result = tq.minimize(E, initial_values = initial_vals)
AnsatzCell ==
    /\ pc = "ansatz"
    /\ LET circ == QCC_circuit(construct_QMF_ansatz(NQ),
                               construct_QCC_ansatz(entanglers))
           vals == init_qcc_params(hf_reference, extract_variables(circ))
       IN  /\ U' = circ
           /\ initial_values' = vals
           /\ E_first' = FirstEnergy(circ, vals, NQ)
           /\ result' \in FinalEnergies \cup {FirstEnergy(circ, vals, NQ)}
    /\ pc' = "restart"
    /\ UNCHANGED <<inputs, E_uccsd0, ranked_entangler_groupings, entanglers, Es>>

\* minimize_E_random_guesses(objective=E, method, tol, n): one trial, a
\* tq.minimize run from uniformly random initial values.  The random draw
\* and the optimizer are outside the repository: the energy a trial ends
\* at is any of FinalEnergies.
RestartTrial ==
    /\ pc = "restart"
    /\ Len(Es) < n
    /\ \E e \in FinalEnergies : Es' = Append(Es, e)
    /\ UNCHANGED <<pc, inputs, E_uccsd0, ranked_entangler_groupings,
                   entanglers, U, initial_values, E_first, result>>

\* mutant of best_of: the energy of the last trial
best_of_Last(energies) == energies[Len(energies)]

\* lowest energy of the trials: the value bound to result
best_of(energies) == SeqMin(energies)

\* minimize_E_random_guesses returns after the n-th trial
RestartReturn ==
    /\ pc = "restart"
    /\ Len(Es) = n
    /\ result' = best_of(Es)
    /\ pc' = "done"
    /\ UNCHANGED <<inputs, E_uccsd0, ranked_entangler_groupings, entanglers,
                   U, initial_values, E_first, Es>>

Next ==
    \/ UCCSDCell
    \/ RankCell
    \/ SelectCell
    \/ AnsatzCell
    \/ RestartTrial
    \/ RestartReturn

Spec == Init /\ [][Next]_vars

----------------------------------------------------------------------------
(* Phases of the run *)

RankingDone   == pc \in {"select", "ansatz", "restart", "done"}
SelectionDone == pc \in {"ansatz", "restart", "done"}
AnsatzDone    == pc \in {"restart", "done"}

groups == ranked_entangler_groupings

\* the candidates of H that pass the cutoff
Survivors == { j \in DOMAIN H : H[j].grad >= threshold }

----------------------------------------------------------------------------
(* C1 *)

\* C1 as stated: every group returned by the ranking carries a gradient
\* magnitude >= cutoff.
C1_MagnitudeAtLeastCutoff ==
    RankingDone => \A i \in DOMAIN groups : groups[i][2] >= threshold

\* C1 amended: every returned group is the group of a candidate whose
\* unrounded gradient magnitude is >= cutoff and carries that magnitude
\* rounded to four decimals; a candidate below the cutoff never appears.
C1_SurvivorsOnly ==
    RankingDone =>
        /\ \A i \in DOMAIN groups :
             \E j \in Survivors : /\ groups[i][1] = H[j].ents
                                  /\ groups[i][2] = Round4(H[j].grad)
        /\ \A j \in DOMAIN H \ Survivors :
             \A i \in DOMAIN groups : groups[i][1] # H[j].ents

\* a candidate was discarded and a kept group prints magnitude 0.0
C1_Witness ==
    /\ RankingDone
    /\ DOMAIN H \ Survivors # {}
    /\ \E i \in DOMAIN groups : groups[i][2] = 0
    /\ \E i \in DOMAIN groups : groups[i][2] > 0

----------------------------------------------------------------------------
(* C4 *)

\* C4: the ranking output is sorted by magnitude in descending order.
C4_SortedDescending ==
    RankingDone =>
        \A i, j \in DOMAIN groups : i < j => groups[i][2] >= groups[j][2]

\* the input enumerated a smaller gradient before a larger one and both are
\* in the output
C4_Witness ==
    /\ RankingDone
    /\ Len(groups) >= 2
    /\ groups[1][2] > groups[Len(groups)][2]
    /\ \E a, b \in Survivors : a < b /\ H[a].grad < H[b].grad

----------------------------------------------------------------------------
(* C5 *)

\* C5: init_qcc_params gives beta_i = pi for an occupied qubit and 0 for an
\* empty one, gamma_i = 0 for every qubit and tau_j = 0 for every entangler.
C5_InitialParameters ==
    AnsatzDone =>
        /\ \A i \in 0..(NQ - 1) :
             /\ initial_values[Var("beta", i)] =
                    (IF hf_reference[i + 1] = 1 THEN PI ELSE 0)
             /\ initial_values[Var("gamma", i)] = 0
        /\ \A j \in 0..(Len(entanglers) - 1) : initial_values[Var("tau", j)] = 0

\* the H2 start: two occupied qubits, two empty ones, one entangler or more
C5_Witness ==
    /\ AnsatzDone
    /\ n_electrons = 2
    /\ Len(entanglers) >= 1
    /\ initial_values[Var("beta", 1)] = PI
    /\ initial_values[Var("beta", 2)] = 0
    /\ initial_values[Var("tau", 0)] = 0

----------------------------------------------------------------------------
(* C6 *)

\* C6: at the initial values the QCC ansatz prepares the reference bit
\* pattern, so its first energy is the Hartree-Fock energy, which is also
\* the first energy of the UCCSD run started at zero amplitudes.
C6_StartsAtHartreeFock ==
    AnsatzDone =>
        /\ Prepare(U, initial_values, NQ) = Basis(hf_reference)
        /\ E_first = BasisEnergy(hf_reference)
        /\ E_first = E_uccsd0

\* occupied and empty qubits, a non-empty entangler layer, UCCSD amplitudes
C6_Witness ==
    /\ AnsatzDone
    /\ n_electrons = 2
    /\ Len(entanglers) >= 1
    /\ Prepare(U, initial_values, NQ).bits = <<1, 1, 0, 0>>
    /\ E_first = E_uccsd0

----------------------------------------------------------------------------
(* C7 *)

\* C7: the random-restart run makes exactly n trials and returns the lowest
\* of their final energies.
C7_LowestOfNTrials ==
    /\ Len(Es) <= n
    /\ pc = "done" =>
         /\ Len(Es) = n
         /\ \A i \in DOMAIN Es : result <= Es[i]
         /\ \E i \in DOMAIN Es : result = Es[i]

\* two trials, the later one lower than the earlier one
C7_Witness ==
    /\ pc = "done"
    /\ n = 2
    /\ Es[2] < Es[1]
    /\ result = Es[2]

----------------------------------------------------------------------------
(* C9 *)

\* C9 as stated: no two distinct groups of the output carry the same
\* magnitude (entanglers of equal magnitude share a group).
C9_NoTwoGroupsShareMagnitude ==
    RankingDone =>
        \A i, j \in DOMAIN groups : i # j => groups[i][2] # groups[j][2]

\* C9 amended: every surviving candidate generator forms exactly one group,
\* which holds its entanglers under one magnitude; groups are not merged, so
\* there are as many groups as surviving candidates.
C9_OneGroupPerGenerator ==
    RankingDone =>
        /\ Len(groups) = Cardinality(Survivors)
        /\ \A j \in Survivors :
             /\ Cardinality({i \in DOMAIN groups : groups[i][1] = H[j].ents}) = 1
             /\ \A i \in DOMAIN groups :
                  groups[i][1] = H[j].ents => groups[i][2] = Round4(H[j].grad)

\* two groups of the output with one and the same gradient
C9_Witness ==
    /\ RankingDone
    /\ \E a, b \in Survivors : a # b /\ H[a].grad = H[b].grad
    /\ \E i, j \in DOMAIN groups :
         i # j /\ groups[i][2] = groups[j][2] /\ groups[i][2] > 0

----------------------------------------------------------------------------
(* C10 *)

MeanFieldVariables ==
    {Var("beta", i) : i \in 0..(NQ - 1)} \cup {Var("gamma", i) : i \in 0..(NQ - 1)}

\* C10: the ansatz is the rotation pair of every qubit followed by one
\* exponential per selected entangler in selection order, every variable
\* name is used once, and the objective has 2*n + m variables.
C10_AnsatzShape ==
    AnsatzDone =>
        LET m == Len(entanglers)
            variables == extract_variables(U)
        IN  /\ Len(U) = 2 * NQ + m
            /\ \A q \in 0..(NQ - 1) :
                 /\ U[2 * q + 1] =
                      [gate |-> "Rx", target |-> q, angle |-> Var("beta", q)]
                 /\ U[2 * q + 2] =
                      [gate |-> "Rz", target |-> q, angle |-> Var("gamma", q)]
            /\ \A j \in 1..m :
                 U[2 * NQ + j] = [gate |-> "ExpPauli", target |-> entanglers[j],
                                  angle |-> Var("tau", j - 1)]
            /\ \A a, b \in DOMAIN U : a # b => U[a].angle # U[b].angle
            /\ Len(variables) = 2 * NQ + m
            /\ Range(variables) =
                 MeanFieldVariables \cup {Var("tau", j) : j \in 0..(m - 1)}
            /\ DOMAIN initial_values = Range(variables)

\* two entanglers selected: ten variables
C10_Witness ==
    /\ AnsatzDone
    /\ Len(entanglers) = 2
    /\ Len(extract_variables(U)) = 2 * NQ + 2
    /\ U[Len(U)].target = entanglers[2]

----------------------------------------------------------------------------
(* C11 *)

\* every candidate gradient of the Hamiltonian is below the cutoff
AllBelowCutoff == \A j \in DOMAIN H : H[j].grad < threshold

\* C11: when every candidate gradient is below the cutoff the ranking is
\* empty, the selection is empty whatever count is requested, the ansatz is
\* the mean-field layer alone with its 2*n parameters and no amplitude, and
\* the objective built on it evaluates to the Hartree-Fock energy.
C11_EmptyRankingIsMeanField ==
    AllBelowCutoff =>
        /\ RankingDone => groups = <<>>
        /\ SelectionDone => entanglers = <<>>
        /\ AnsatzDone =>
             /\ U = construct_QMF_ansatz(NQ)
             /\ Range(extract_variables(U)) = MeanFieldVariables
             /\ DOMAIN initial_values = MeanFieldVariables
             /\ \A v \in DOMAIN initial_values : v[1] # "tau"
             /\ Prepare(U, initial_values, NQ) = Basis(hf_reference)
             /\ E_first = BasisEnergy(hf_reference)

\* candidates exist, all are discarded, entanglers were requested, and the
\* run has built the ansatz
C11_Witness ==
    /\ AnsatzDone
    /\ Len(H) >= 2
    /\ AllBelowCutoff
    /\ n_ents >= 1
    /\ Len(U) = 2 * NQ

----------------------------------------------------------------------------
(* C13 *)

\* the number of Y operators of a Pauli string
RECURSIVE YCount(_)
YCount(p) ==
    IF p = <<>> THEN 0
    ELSE (IF Head(p)[1] = "Y" THEN 1 ELSE 0) + YCount(Tail(p))

----------------------------------------------------------------------------
(* C16 *)

\* the UCCSD cell has run and its objective is still the current one
UCCSDCurrent == pc \in {"rank", "select", "ansatz"}

\* C16: the assignment the UCCSD run hands to the optimizer has one entry
\* for each variable of the objective, no other entry, every entry is 0.0,
\* and at these values the circuit prepares the Hartree-Fock state.
C16_UCCSDStartsAtZero ==
    UCCSDCurrent =>
        /\ DOMAIN initial_values = Range(extract_variables(U))
        /\ \A k \in DOMAIN initial_values : initial_values[k] = 0
        /\ Prepare(U, initial_values, NQ) = Basis(hf_reference)
        /\ E_uccsd0 = BasisEnergy(hf_reference)

\* a UCCSD objective with an amplitude on a molecule with occupied and
\* empty spin-orbitals
C16_Witness ==
    /\ UCCSDCurrent
    /\ n_electrons = 2
    /\ Cardinality(DOMAIN initial_values) >= 1
    /\ Len(U) > n_electrons

----------------------------------------------------------------------------
(* C17 *)

\* s is an initial segment of t
IsPrefix(s, t) == Len(s) <= Len(t) /\ s = SubSeq(t, 1, Len(s))

\* C17: on the same ranking, the selection made for the requested count is
\* an initial segment of the selection for every larger count, and the
\* selection for every smaller count is an initial segment of it.
C17_SelectionIsMonotone ==
    SelectionDone =>
        \A k \in 0..(MaxK + 1) :
            /\ k >= n_ents =>
                 IsPrefix(entanglers, get_QCC_entanglers(groups, k, NQ))
            /\ k <= n_ents =>
                 IsPrefix(get_QCC_entanglers(groups, k, NQ), entanglers)

\* one entangler was selected where a count of two selects a second one
C17_Witness ==
    /\ SelectionDone
    /\ n_ents = 1
    /\ Len(entanglers) = 1
    /\ Len(get_QCC_entanglers(groups, n_ents + 1, NQ)) = 2
    /\ get_QCC_entanglers(groups, n_ents + 1, NQ)[2] # entanglers[1]

====
